---- MODULE Spec2Model ----
(***************************************************************************)
(* Agent/environment simulation loop of myagents.py: Thing, Agent,         *)
(* TableDrivenAgentProgram, Environment and TrivialVacuumEnvironment.      *)
(*                                                                         *)
(* Two environments exist: "base" is a plain Environment() (percept and    *)
(* execute_action not supplied), "vacuum" is a TrivialVacuumEnvironment(). *)
(* Python objects are named by integers: 0 is a plain Thing(), 1 and 2 are *)
(* agents built by TableDrivenVacuumAgent(), and WrapName(k) is the k-th   *)
(* Agent that add_thing built around a bare program.  Programs are the     *)
(* closures returned by TableDrivenAgentProgram: program p (p = 1, 2)      *)
(* belongs to agent p, program 3 is a closure held by the caller.          *)
(***************************************************************************)
EXTENDS Integers, Sequences, FiniteSets, TLC

\* ------------------------------------------------------------------ bounds
MaxCalls == 3       \* calls made on the environments in one behaviour
MaxWrapped == 2     \* agents that add_thing builds around bare programs
MaxRun == 2         \* largest steps argument given to run()
MaxVacuumCalls == 5 \* calls of one behaviour of SpecVacuum
MaxCleaningCalls == 9   \* calls of one behaviour of SpecOneAgent

\* ------------------------------------------------------------ the universe
Envs == {"base", "vacuum"}
PlainThings == {0}
TableAgents == {1, 2}
\* every wrapped agent under the name of the first one
WrapNameSame(k) == 10 + 1

WrapName(k) == 10 + k
Wrapped == {WrapName(k) : k \in 1..MaxWrapped}
AgentIds == TableAgents \cup Wrapped
Entities == PlainThings \cup AgentIds
BarePrograms == {3}
Programs == TableAgents \cup BarePrograms

loc_A == "loc_A"
loc_B == "loc_B"
loc_C == "loc_C"
loc_D == "loc_D"
Locs == {loc_A, loc_B, loc_C, loc_D}
None == "None"          \* Python's None
NoAttr == "no-attr"     \* the attribute was never assigned
StatusValues == {"Clean", "Dirty"}
AddLocations == {None, loc_A}   \* the location arguments given to add_thing

\* TrivialVacuumEnvironment.__init__ draws each status at random; the
\* behaviours explored start from these two draws, in which every location
\* occurs Clean and occurs Dirty
InitStatuses ==
  { [l \in Locs |-> IF l \in {loc_A, loc_C} THEN "Dirty" ELSE "Clean"],
    [l \in Locs |-> IF l \in {loc_A, loc_C} THEN "Clean" ELSE "Dirty"] }
NoArg == -1

VARIABLES things, agents, status, location, performance, alive, program,
          percepts, nwrapped, ncalls, last, trace

vars == <<things, agents, status, location, performance, alive, program,
          percepts, nwrapped, ncalls, last, trace>>

\* ------------------------------------------------------------ list helpers
InList(s, x) == \E i \in DOMAIN s : s[i] = x

\* list.remove(x): drops the first occurrence of x
ListRemove(s, x) ==
  LET i == CHOOSE k \in DOMAIN s : s[k] = x /\ \A j \in 1..(k - 1) : s[j] # x
  IN  SubSeq(s, 1, i - 1) \o SubSeq(s, i + 1, Len(s))

\* ------------------------------------------------------------ Thing, Agent
\* isinstance(thing, Agent)
IsAgent(x) == x \in AgentIds

is_aliveHasAttr(x) == x \in DOMAIN alive

\* Thing.is_alive: hasattr(self, 'alive') and self.alive
is_alive(x) == x \in DOMAIN alive /\ alive[x]

\* objects the caller can hold a reference to
Created == PlainThings \cup TableAgents
           \cup {WrapName(k) : k \in 1..nwrapped}

\* ------------------------------------------------- TableDrivenAgentProgram
\* A Python tuple as the sequence of its tokens, so that tuples of different
\* shapes are different values that can still be compared.
TupleOfPercept(p) == <<"(", p[1], p[2], ")">>

RECURSIVE Flatten(_)
Flatten(ps) == IF ps = <<>> THEN <<>>
               ELSE TupleOfPercept(Head(ps)) \o Flatten(Tail(ps))

TupleOfPercepts(ps) == <<"(">> \o Flatten(ps) \o <<")">>

\* the table with the entry of (loc_C, 'Clean') sending the agent Down
VacuumTableDownAtC ==
  [k \in {TupleOfPercept(<<l, s>>) : l \in Locs, s \in StatusValues} |->
     IF k[3] = "Dirty" THEN "Suck"
     ELSE CASE k[2] = loc_A -> "Right"
            [] k[2] = loc_B -> "Up"
            [] k[2] = loc_C -> "Down"
            [] k[2] = loc_D -> "Down"]

\* the table of TableDrivenVacuumAgent
VacuumTable ==
  [k \in {TupleOfPercept(<<l, s>>) : l \in Locs, s \in StatusValues} |->
     IF k[3] = "Dirty" THEN "Suck"
     ELSE CASE k[2] = loc_A -> "Right"
            [] k[2] = loc_B -> "Up"
            [] k[2] = loc_C -> "Left"
            [] k[2] = loc_D -> "Down"]

\* the table the caller gave to the closure it holds: entries for loc_A only
CallerTable ==
  [k \in {TupleOfPercept(<<loc_A, s>>) : s \in StatusValues} |->
     IF k[3] = "Dirty" THEN "Suck" ELSE "Right"]

TableOf(p) == IF p \in BarePrograms THEN CallerTable ELSE VacuumTable

\* dict.get(key): the entry, or None
TableGet(table, key) == IF key \in DOMAIN table THEN table[key] ELSE None

LookupKeyFullSequence(hist, percept) == TupleOfPercepts(hist)

\* the key the closure looks up after appending percept to its history hist
LookupKey(hist, percept) == TupleOfPercept(percept)

\* program(percept) of closure p with history hist
ProgramCall(p, hist, percept) ==
  [percepts |-> Append(hist, percept),
   action   |-> TableGet(TableOf(p), LookupKey(Append(hist, percept), percept))]

\* ------------------------------------------------------------- Environment
IsVacuum(env) == env = "vacuum"

\* Environment.is_done
is_done(env) == ~ \E i \in DOMAIN agents[env] : is_alive(agents[env][i])

\* default_location: None in Environment, a random location in the vacuum world
DefaultLocations(env) == IF IsVacuum(env) THEN Locs ELSE {None}

Event(ev, a, percept, action) ==
  [ev |-> ev, agent |-> a, loc |-> percept[1], st |-> percept[2], action |-> action]

NoPercept == <<"", "">>

\* percept(agent) on world w
Percept(env, w, a) ==
  IF ~IsVacuum(env) THEN [raised |-> "NotImplementedError", value |-> NoPercept]
  ELSE IF w.location[a] \notin DOMAIN w.status
       THEN [raised |-> "KeyError", value |-> NoPercept]
       ELSE [raised |-> "", value |-> <<w.location[a], w.status[w.location[a]]>>]

MovesLeftToA == [Right |-> loc_B, Up |-> loc_C, Left |-> loc_A, Down |-> loc_A]

Moves == [Right |-> loc_B, Up |-> loc_C, Left |-> loc_D, Down |-> loc_A]

\* execute_action scoring every Suck, on a Clean location too
ExecuteActionAlwaysScores(env, w, a, action) ==
  LET w1 == [w EXCEPT !.trace = Append(@, Event("execute", a, NoPercept, action))]
  IN
  IF ~IsVacuum(env) THEN [w1 EXCEPT !.raised = "NotImplementedError"]
  ELSE IF action \in DOMAIN Moves
       THEN [w1 EXCEPT !.location[a] = Moves[action],
                       !.performance[a] = @ - 1]
  ELSE IF action = "Suck"
       THEN IF w.location[a] \notin DOMAIN w.status
            THEN [w1 EXCEPT !.raised = "KeyError"]
            ELSE [w1 EXCEPT !.performance[a] = @ + 10,
                            !.status[w.location[a]] = "Clean"]
  ELSE w1

\* execute_action charging a move for an action it does not know
ExecuteActionUnknownCosts(env, w, a, action) ==
  LET w1 == [w EXCEPT !.trace = Append(@, Event("execute", a, NoPercept, action))]
  IN
  IF ~IsVacuum(env) THEN [w1 EXCEPT !.raised = "NotImplementedError"]
  ELSE IF action \in DOMAIN Moves
       THEN [w1 EXCEPT !.location[a] = Moves[action],
                       !.performance[a] = @ - 1]
  ELSE IF action = "Suck"
       THEN IF w.location[a] \notin DOMAIN w.status
            THEN [w1 EXCEPT !.raised = "KeyError"]
            ELSE [w1 EXCEPT !.performance[a] =
                              IF w.status[w.location[a]] = "Dirty" THEN @ + 10 ELSE @,
                            !.status[w.location[a]] = "Clean"]
  ELSE IF action = ""
       THEN w1
  ELSE [w1 EXCEPT !.performance[a] = @ - 1]

\* execute_action(agent, action) on world w
ExecuteAction(env, w, a, action) ==
  LET w1 == [w EXCEPT !.trace = Append(@, Event("execute", a, NoPercept, action))]
  IN
  IF ~IsVacuum(env) THEN [w1 EXCEPT !.raised = "NotImplementedError"]
  ELSE IF action \in DOMAIN Moves
       THEN [w1 EXCEPT !.location[a] = Moves[action],
                       !.performance[a] = @ - 1]
  ELSE IF action = "Suck"
       THEN IF w.location[a] \notin DOMAIN w.status
            THEN [w1 EXCEPT !.raised = "KeyError"]
            ELSE [w1 EXCEPT !.performance[a] =
                              IF w.status[w.location[a]] = "Dirty" THEN @ + 10 ELSE @,
                            !.status[w.location[a]] = "Clean"]
  ELSE w1

\* first loop of step without its test of agent.alive
RECURSIVE PerceiveAll(_, _, _, _)
PerceiveAll(env, ags, w, actions) ==
  IF ags = <<>> \/ w.raised # "" THEN [w |-> w, actions |-> actions]
  ELSE LET a == Head(ags)
           p == Percept(env, w, a)
       IN IF p.raised # ""
          THEN [w |-> [w EXCEPT !.raised = p.raised,
                                !.trace = Append(@, Event("percept", a, NoPercept, ""))],
                actions |-> actions]
          ELSE LET r == ProgramCall(program[a], w.percepts[program[a]], p.value)
                   w1 == [w EXCEPT !.percepts[program[a]] = r.percepts,
                                   !.trace = @ \o <<Event("percept", a, p.value, ""),
                                                    Event("program", a, p.value, r.action)>>]
               IN PerceiveAll(env, Tail(ags), w1, Append(actions, r.action))

\* first loop of step: the actions of the agents ags, in order
RECURSIVE Perceive(_, _, _, _)
Perceive(env, ags, w, actions) ==
  IF ags = <<>> \/ w.raised # "" THEN [w |-> w, actions |-> actions]
  ELSE LET a == Head(ags) IN
       IF alive[a]
       THEN LET p == Percept(env, w, a) IN
            IF p.raised # ""
            THEN [w |-> [w EXCEPT !.raised = p.raised,
                                  !.trace = Append(@, Event("percept", a, NoPercept, ""))],
                  actions |-> actions]
            ELSE LET r == ProgramCall(program[a], w.percepts[program[a]], p.value)
                     w1 == [w EXCEPT !.percepts[program[a]] = r.percepts,
                                     !.trace = @ \o <<Event("percept", a, p.value, ""),
                                                      Event("program", a, p.value, r.action)>>]
                 IN Perceive(env, Tail(ags), w1, Append(actions, r.action))
       ELSE Perceive(env, Tail(ags), w, Append(actions, ""))

\* second loop of step: execute_action for every (agent, action) pair
RECURSIVE Execute(_, _, _, _)
Execute(env, ags, actions, w) ==
  IF ags = <<>> \/ actions = <<>> \/ w.raised # "" THEN w
  ELSE Execute(env, Tail(ags), Tail(actions),
               ExecuteAction(env, w, Head(ags), Head(actions)))

\* step with each agent's action executed right after it is computed
RECURSIVE StepEachInTurn(_, _, _)
StepEachInTurn(env, ags, w) ==
  IF ags = <<>> \/ w.raised # "" THEN w
  ELSE LET p == Perceive(env, <<Head(ags)>>, w, <<>>) IN
       IF p.w.raised # "" THEN p.w
       ELSE StepEachInTurn(env, Tail(ags),
                           Execute(env, <<Head(ags)>>, p.actions, p.w))

StepWorldInterleaved(env, w) ==
  IF is_done(env) THEN w ELSE StepEachInTurn(env, agents[env], w)

\* step without its is_done() test
StepWorldNoGuard(env, w) ==
  LET p == Perceive(env, agents[env], w, <<>>) IN
  IF p.w.raised # "" THEN p.w
  ELSE Execute(env, agents[env], p.actions, p.w)

\* Environment.step on world w.  The lists agents and the alive flags do not
\* change while step and run execute, so is_done() reads the state variables.
StepWorld(env, w) ==
  IF is_done(env) THEN w
  ELSE LET p == Perceive(env, agents[env], w, <<>>) IN
       IF p.w.raised # "" THEN p.w
       ELSE Execute(env, agents[env], p.actions, p.w)

\* run without its is_done() test
RECURSIVE RunWorldNoTest(_, _, _)
RunWorldNoTest(env, steps, w) ==
  IF steps = 0 \/ w.raised # "" THEN w
  ELSE RunWorldNoTest(env, steps - 1, [StepWorld(env, w) EXCEPT !.nsteps = @ + 1])

\* Environment.run(steps) on world w; nsteps counts the step() calls made
RECURSIVE RunWorld(_, _, _)
RunWorld(env, steps, w) ==
  IF steps = 0 \/ is_done(env) \/ w.raised # "" THEN w
  ELSE RunWorld(env, steps - 1, [StepWorld(env, w) EXCEPT !.nsteps = @ + 1])

World == [status |-> status, location |-> location, performance |-> performance,
          percepts |-> percepts, trace |-> <<>>, raised |-> "", nsteps |-> 0]

\* ------------------------------------------------------------------ state
Call(op, env, arg, loc, diag, raised, result, nsteps) ==
  [op |-> op, env |-> env, arg |-> arg, loc |-> loc, diag |-> diag,
   raised |-> raised, result |-> result, nsteps |-> nsteps]

Init ==
  /\ things = [e \in Envs |-> <<>>]
  /\ agents = [e \in Envs |-> <<>>]
  /\ status \in InitStatuses
  /\ location = [x \in Entities |-> NoAttr]
  /\ performance = [x \in AgentIds |-> 0]
  /\ alive = [x \in AgentIds |-> TRUE]
  /\ program = [x \in AgentIds |-> IF x \in TableAgents THEN x ELSE 0]
  /\ percepts = [p \in Programs |-> <<>>]
  /\ nwrapped = 0
  /\ ncalls = 0
  /\ last = Call("init", "", NoArg, "", "", "", FALSE, 0)
  /\ trace = <<>>

AlreadyPresentNever(ths, x) == FALSE

AgentsAfterAddAny(ags, x) == Append(ags, x)

AgentSlotsOnAddRevive(x) == [performance |-> 0, alive |-> TRUE]

AgentSlotsOnAddKeepScore(x) == [performance |-> performance[x], alive |-> alive[x]]

AgentsAfterDeleteKeep(ags, x) == ags

\* add_thing's test: thing in self.things
AlreadyPresent(ths, x) == InList(ths, x)

\* add_thing's last three lines on the list agents
AgentsAfterAdd(ags, x) == IF IsAgent(x) THEN Append(ags, x) ELSE ags

\* what add_thing assigns to the slots of an agent it registers: performance
\* is reset, alive is left as it is
AgentSlotsOnAdd(x) == [performance |-> 0, alive |-> alive[x]]

\* delete_thing's last two lines on the list agents
AgentsAfterDelete(ags, x) == IF InList(ags, x) THEN ListRemove(ags, x) ELSE ags

\* add_thing's else branch, for the Thing x
Register(env, x, loc) ==
  /\ \E l \in (IF loc # None THEN {loc} ELSE DefaultLocations(env)) :
        location' = [location EXCEPT ![x] = l]
  /\ things' = [things EXCEPT ![env] = Append(@, x)]
  /\ agents' = [agents EXCEPT ![env] = AgentsAfterAdd(@, x)]
  /\ IF IsAgent(x)
     THEN /\ performance' = [performance EXCEPT ![x] = AgentSlotsOnAdd(x).performance]
          /\ alive' = [alive EXCEPT ![x] = AgentSlotsOnAdd(x).alive]
     ELSE UNCHANGED <<performance, alive>>

\* add_thing(thing, location) with thing a Thing
AddThing(env, x, loc) ==
  /\ x \in Created
  /\ ncalls' = ncalls + 1
  /\ trace' = <<>>
  /\ UNCHANGED <<status, program, percepts, nwrapped>>
  /\ IF AlreadyPresent(things[env], x)
     THEN /\ last' = Call("add_thing", env, x, loc, "dup", "", FALSE, 0)
          /\ UNCHANGED <<things, agents, location, performance, alive>>
     ELSE /\ last' = Call("add_thing", env, x, loc, "", "", TRUE, 0)
          /\ Register(env, x, loc)

\* add_thing(thing, location) with thing a bare program: a new Agent wraps it
AddProgram(env, p, loc) ==
  /\ nwrapped < MaxWrapped
  /\ LET x == WrapName(nwrapped + 1) IN
       /\ nwrapped' = nwrapped + 1
       /\ program' = [program EXCEPT ![x] = p]
       /\ IF AlreadyPresent(things[env], x)
          THEN /\ last' = Call("add_program", env, x, loc, "dup", "", FALSE, 0)
               /\ UNCHANGED <<things, agents, location, performance, alive>>
          ELSE /\ last' = Call("add_program", env, x, loc, "", "", TRUE, 0)
               /\ Register(env, x, loc)
  /\ ncalls' = ncalls + 1
  /\ trace' = <<>>
  /\ UNCHANGED <<status, percepts>>

\* delete_thing(thing)
DeleteThing(env, x) ==
  /\ x \in Created
  /\ ncalls' = ncalls + 1
  /\ trace' = <<>>
  /\ UNCHANGED <<status, location, performance, alive, program, percepts, nwrapped>>
  /\ IF InList(things[env], x)
     THEN /\ things' = [things EXCEPT ![env] = ListRemove(@, x)]
          /\ agents' = [agents EXCEPT ![env] = AgentsAfterDelete(@, x)]
          /\ last' = Call("delete_thing", env, x, "", "", "", TRUE, 0)
     ELSE IF location[x] = NoAttr
     THEN /\ UNCHANGED <<things, agents>>
          /\ last' = Call("delete_thing", env, x, "", "missing", "AttributeError", FALSE, 0)
     ELSE /\ things' = things
          /\ agents' = [agents EXCEPT ![env] = AgentsAfterDelete(@, x)]
          /\ last' = Call("delete_thing", env, x, "", "missing", "", FALSE, 0)

Commit(w) ==
  /\ status' = w.status
  /\ location' = w.location
  /\ performance' = w.performance
  /\ percepts' = w.percepts
  /\ trace' = w.trace

\* step()
Step(env) ==
  /\ ncalls' = ncalls + 1
  /\ LET w == StepWorld(env, World) IN
       /\ Commit(w)
       /\ last' = Call("step", env, NoArg, "", "", w.raised, ~is_done(env), 1)
  /\ UNCHANGED <<things, agents, alive, program, nwrapped>>

\* run(steps)
Run(env, steps) ==
  /\ ncalls' = ncalls + 1
  /\ LET w == RunWorld(env, steps, World) IN
       /\ Commit(w)
       /\ last' = Call("run", env, steps, "", "", w.raised, FALSE, w.nsteps)
  /\ UNCHANGED <<things, agents, alive, program, nwrapped>>

\* is_done()
IsDone(env) ==
  /\ ncalls' = ncalls + 1
  /\ last' = Call("is_done", env, NoArg, "", "", "", is_done(env), 0)
  /\ trace' = <<>>
  /\ UNCHANGED <<things, agents, status, location, performance, alive, program,
                 percepts, nwrapped>>

\* the caller marks an agent not alive: agent.alive = False
MarkNotAlive(x) ==
  /\ x \in Created /\ IsAgent(x) /\ alive[x]
  /\ ncalls' = ncalls + 1
  /\ alive' = [alive EXCEPT ![x] = FALSE]
  /\ last' = Call("mark_not_alive", "", x, "", "", "", FALSE, 0)
  /\ trace' = <<>>
  /\ UNCHANGED <<things, agents, status, location, performance, program,
                 percepts, nwrapped>>

\* one more call is made while the budget of calls lasts
Budget == ncalls < MaxCalls

Next ==
  \/ \E env \in Envs, x \in Entities, loc \in AddLocations :
        Budget /\ AddThing(env, x, loc)
  \/ \E env \in Envs, p \in BarePrograms, loc \in AddLocations :
        Budget /\ AddProgram(env, p, loc)
  \/ \E env \in Envs, x \in Entities : Budget /\ DeleteThing(env, x)
  \/ \E env \in Envs : Budget /\ Step(env)
  \/ \E env \in Envs, steps \in 0..MaxRun : Budget /\ Run(env, steps)
  \/ \E env \in Envs : Budget /\ IsDone(env)
  \/ \E x \in AgentIds : Budget /\ MarkNotAlive(x)

Spec == Init /\ [][Next]_vars

\* The vacuum world alone, with the two agents of TableDrivenVacuumAgent()
\* placed by default_location: longer behaviours over fewer calls.
NextVacuum ==
  \/ \E x \in TableAgents :
        ncalls < MaxVacuumCalls /\ AddThing("vacuum", x, None)
  \/ \E x \in TableAgents :
        ncalls < MaxVacuumCalls /\ DeleteThing("vacuum", x)
  \/ ncalls < MaxVacuumCalls /\ Step("vacuum")
  \/ \E x \in TableAgents :
        ncalls < MaxVacuumCalls /\ MarkNotAlive(x)

SpecVacuum == Init /\ [][NextVacuum]_vars

\* The demo of __main__: a vacuum world with any of the sixteen draws of
\* status, one TableDrivenVacuumAgent() added to it, then step() after step().
InitAnyStatus ==
  /\ things = [e \in Envs |-> <<>>]
  /\ agents = [e \in Envs |-> <<>>]
  /\ status \in [Locs -> StatusValues]
  /\ location = [x \in Entities |-> NoAttr]
  /\ performance = [x \in AgentIds |-> 0]
  /\ alive = [x \in AgentIds |-> TRUE]
  /\ program = [x \in AgentIds |-> IF x \in TableAgents THEN x ELSE 0]
  /\ percepts = [p \in Programs |-> <<>>]
  /\ nwrapped = 0
  /\ ncalls = 0
  /\ last = Call("init", "", NoArg, "", "", "", FALSE, 0)
  /\ trace = <<>>

NextOneAgent ==
  \/ \E loc \in AddLocations :
        /\ ncalls < MaxCleaningCalls
        /\ things["vacuum"] = <<>>
        /\ AddThing("vacuum", 1, loc)
  \/ /\ ncalls < MaxCleaningCalls
     /\ agents["vacuum"] # <<>>
     /\ Step("vacuum")

SpecOneAgent == InitAnyStatus /\ [][NextOneAgent]_vars

\* ================================================================== claims
Without(s, x) == SelectSeq(s, LAMBDA y : y # x)

NoDuplicates(s) == \A i, j \in DOMAIN s : s[i] = s[j] => i = j

\* the state of the world and of the registries, without the bookkeeping
\* of the calls
Observable == <<things, agents, status, location, performance, alive, program,
                percepts>>

\* C1: in every reachable state, every member of agents is a member of
\* things, and agents is exactly the subsequence of things that are Agents,
\* in the same relative order.
C1_AgentsSubsequenceOfThings ==
  \A env \in Envs :
    /\ \A i \in DOMAIN agents[env] : InList(things[env], agents[env][i])
    /\ agents[env] = SelectSeq(things[env], IsAgent)

\* C1 witness: a delete_thing has removed a plain Thing and left an agent
\* registered.
C1_Witness ==
  /\ last.op = "delete_thing" /\ last.result /\ last.arg \in PlainThings
  /\ agents[last.env] # <<>>

\* C2: add_thing(e) for e already in things raises nothing and leaves the
\* whole state as it was (things, agents, every location, every performance),
\* and no entity ever appears twice in things or in agents.
C2_DuplicateAddRejected ==
  /\ [](\A env \in Envs : NoDuplicates(things[env]) /\ NoDuplicates(agents[env]))
  /\ [][(last'.op = "add_thing" /\ InList(things[last'.env], last'.arg))
          => (/\ last'.raised = "" /\ last'.diag = "dup"
              /\ Observable' = Observable)]_vars

\* C2 witness: an add_thing of an agent already registered was rejected.
C2_Witness ==
  /\ last.op = "add_thing" /\ last.diag = "dup" /\ IsAgent(last.arg)
  /\ InList(agents[last.env], last.arg)

\* C3: delete_thing(e) for e not in things (also an e never added to any
\* environment) raises nothing, emits a diagnostic and leaves things and
\* agents unchanged.
C3_DeleteMissingRaisesNothing ==
  [][(last'.op = "delete_thing" /\ ~InList(things[last'.env], last'.arg))
      => (/\ last'.raised = "" /\ last'.diag = "missing"
          /\ things' = things /\ agents' = agents)]_vars

\* C4: after add_thing(e) followed by delete_thing(e) on the same
\* environment, e is absent from things and from agents, and the other
\* entities keep their membership and relative order.
C4_AddThenDelete ==
  [][(/\ last.op \in {"add_thing", "add_program"}
      /\ last'.op = "delete_thing"
      /\ last'.env = last.env /\ last'.arg = last.arg)
      => LET env == last.env
             e == last.arg
         IN /\ last'.raised = ""
            /\ ~InList(things'[env], e) /\ ~InList(agents'[env], e)
            /\ things'[env] = Without(things[env], e)
            /\ agents'[env] = Without(agents[env], e)
            /\ \A other \in Envs \ {env} :
                 things'[other] = things[other] /\ agents'[other] = agents[other]]_vars

\* C4 witness: the second call of a behaviour was a delete_thing that found
\* its agent registered; the lists start empty, so the first call was the
\* add_thing of that agent to that environment.
C4_Witness ==
  /\ ncalls = 2 /\ last.op = "delete_thing" /\ last.result /\ IsAgent(last.arg)
  /\ things[last.env] = <<>> /\ agents[last.env] = <<>>

\* C5: in a step() that finds a live agent and raises nothing, every percept
\* and every program call comes before every execute_action; each percept
\* is the agent's location and that location's status at the start of the
\* step; execute_action is called once per agent of agents, in registration
\* order, with the action the agent's program returned (the inert action ""
\* for an agent that is not alive).
EventsOf(tr, kind) == SelectSeq(tr, LAMBDA e : e.ev = kind)

C5_TwoPhaseStep ==
  [][(last'.op = "step" /\ ~is_done(last'.env) /\ last'.raised = "")
      => LET env == last'.env
             ags == agents[env]
             live == SelectSeq(ags, LAMBDA a : alive[a])
             pe == EventsOf(trace', "percept")
             pr == EventsOf(trace', "program")
             ex == EventsOf(trace', "execute")
         IN /\ \A i, j \in DOMAIN trace' :
                 (trace'[i].ev # "execute" /\ trace'[j].ev = "execute") => i < j
            /\ Len(pe) = Len(live) /\ Len(pr) = Len(live) /\ Len(ex) = Len(ags)
            /\ \A k \in DOMAIN live :
                 /\ pe[k].agent = live[k] /\ pr[k].agent = live[k]
                 /\ pe[k].loc = location[live[k]]
                 /\ pe[k].st = status[location[live[k]]]
                 /\ pr[k].loc = pe[k].loc /\ pr[k].st = pe[k].st
            /\ \A i \in DOMAIN ags :
                 /\ ex[i].agent = ags[i]
                 /\ IF alive[ags[i]]
                    THEN \E k \in DOMAIN live :
                           live[k] = ags[i] /\ ex[i].action = pr[k].action
                    ELSE ex[i].action = ""]_vars

\* C5 witness: a step() gave two agents the percept Dirty for one location,
\* which the first execute_action of that step then cleaned.
C5_Witness ==
  /\ last.op = "step" /\ last.raised = ""
  /\ \E i, j \in DOMAIN trace :
       /\ i < j /\ trace[i].ev = "percept" /\ trace[j].ev = "percept"
       /\ trace[i].loc = trace[j].loc
       /\ trace[i].st = "Dirty" /\ trace[j].st = "Dirty"
       /\ status[trace[i].loc] = "Clean"

\* C6: every program call returns the table entry whose key is the full
\* sequence of the percepts the closure has received so far, and None when
\* that sequence is not a key.  Stated for the last call of each closure in
\* the latest step or run, whose history is the closure's current one.
C6_LookupByFullSequence ==
  \A i \in DOMAIN trace :
    (/\ trace[i].ev = "program"
     /\ \A j \in DOMAIN trace :
          (j > i /\ trace[j].ev = "program")
            => program[trace[j].agent] # program[trace[i].agent])
    => LET p == program[trace[i].agent]
       IN trace[i].action = TableGet(TableOf(p), TupleOfPercepts(percepts[p]))

\* C7: run(steps) makes at most steps calls of step(); it makes none when
\* is_done() holds, and exactly steps of them when is_done() does not hold
\* and nothing is raised; run(0) changes no location, status or performance.
C7_RunBounded ==
  [][(last'.op = "run")
      => LET env == last'.env
             steps == last'.arg
         IN /\ last'.nsteps <= steps
            /\ is_done(env) => (last'.nsteps = 0 /\ Observable' = Observable)
            /\ (~is_done(env) /\ last'.raised = "") => last'.nsteps = steps
            /\ steps = 0 => (/\ location' = location /\ status' = status
                             /\ performance' = performance
                             /\ last'.raised = "")]_vars

\* C7 witness: a run(steps) with steps >= 2 used its whole budget on a live
\* agent.
C7_Witness ==
  /\ last.op = "run" /\ last.arg >= 2 /\ last.nsteps = last.arg
  /\ last.raised = "" /\ ~is_done(last.env)

\* C8: is_done() is true exactly when agents is empty or every agent of
\* agents has a false alive flag; with no agents it is true from construction.
AllMarkedNotAlive(env) ==
  \A i \in DOMAIN agents[env] : alive[agents[env][i]] = FALSE

C8_IsDoneCharacterised ==
  /\ \A env \in Envs :
       is_done(env) <=> (agents[env] = <<>> \/ AllMarkedNotAlive(env))
  /\ last.op = "is_done"
       => (last.result <=> (agents[last.env] = <<>> \/ AllMarkedNotAlive(last.env)))
  /\ ncalls = 0 => \A env \in Envs : is_done(env)

\* C8 witness: is_done() returned true for an environment whose only agents
\* are marked not alive.
C8_Witness ==
  /\ last.op = "is_done" /\ last.result
  /\ agents[last.env] # <<>>

\* C9 as stated: once is_done() holds with every agent of a non-empty agents
\* marked not alive, it holds after every later call.
C9_DoneForEver ==
  [][\A env \in Envs :
       (agents[env] # <<>> /\ is_done(env)) => is_done(env)']_vars

\* the call just made registered, in env, an agent that was alive
RegisteredLiveAgent(env) ==
  /\ last'.op \in {"add_thing", "add_program"} /\ last'.env = env
  /\ last'.result
  /\ is_alive(last'.arg)

\* C9 amended: once is_done() holds it holds after every later delete_thing,
\* step, run, and after every add_thing that does not register an agent
\* whose alive flag is true.
C9_DoneUntilLiveAgentAdded ==
  [][\A env \in Envs :
       (is_done(env) /\ ~RegisteredLiveAgent(env)) => is_done(env)']_vars

\* C9 witness: step() or run() was called on an environment whose agents,
\* at least one, are all marked not alive, and is_done() holds afterwards.
C9_Witness ==
  /\ last.op \in {"step", "run"}
  /\ agents[last.env] # <<>> /\ AllMarkedNotAlive(last.env)
  /\ is_done(last.env)

\* C10 as stated: step() on the environment that supplies neither percept
\* nor execute_action raises NotImplementedError in every registry state.
C10_StepAlwaysRaises ==
  (last.op = "step" /\ ~IsVacuum(last.env)) => last.raised = "NotImplementedError"

\* C10 amended: step() on that environment raises NotImplementedError
\* exactly when some agent of agents is alive; when is_done() holds it
\* raises nothing, calls neither percept nor execute_action and returns.
C10_StepRaisesIffLiveAgent ==
  (last.op = "step" /\ ~IsVacuum(last.env))
    => /\ last.raised = "NotImplementedError" <=> ~is_done(last.env)
       /\ is_done(last.env) => (last.raised = "" /\ trace = <<>>)
       /\ last.raised \in {"", "NotImplementedError"}

\* C10 witness: step() raised NotImplementedError in the environment
\* without percept, which holds a live agent.
C10_Witness ==
  /\ last.op = "step" /\ ~IsVacuum(last.env)
  /\ last.raised = "NotImplementedError"
  /\ \E i \in DOMAIN agents[last.env] : alive[agents[last.env][i]]

\* C11: no agent is in the agents list of two environments at the same time.
C11_OneEnvironmentPerAgent ==
  \A e1, e2 \in Envs : \A a \in AgentIds :
    (InList(agents[e1], a) /\ InList(agents[e2], a)) => e1 = e2

\* C12: right after add_thing has accepted an agent, the agent's performance
\* is 0, whatever it was before.
C12_PerformanceResetOnAdd ==
  (last.op \in {"add_thing", "add_program"} /\ last.result /\ IsAgent(last.arg))
    => performance[last.arg] = 0

\* C12 witness: the fourth call accepted an agent whose program has been
\* called: the agent was added, scored by a step, removed and added again.
C12_Witness ==
  /\ ncalls = 4 /\ last.op = "add_thing" /\ last.result /\ IsAgent(last.arg)
  /\ percepts[program[last.arg]] # <<>>
  /\ agents["vacuum"] = <<last.arg>>
  /\ performance[last.arg] = 0

\* C14: a program whose table has no entry for its percept returns None and
\* raises nothing; execute_action with None leaves the agent's location and
\* performance and every status as they were, and step and run return
\* normally.
ExecutedOnly(tr, a, action) ==
  /\ \E i \in DOMAIN tr : tr[i].ev = "execute" /\ tr[i].agent = a
  /\ \A i \in DOMAIN tr :
       (tr[i].ev = "execute" /\ tr[i].agent = a) => tr[i].action = action

C14_UndefinedActionIsNoOp ==
  [][(last'.op \in {"step", "run"} /\ IsVacuum(last'.env))
      => /\ \A i \in DOMAIN trace' :
              (/\ trace'[i].ev = "program"
               /\ TupleOfPercept(<<trace'[i].loc, trace'[i].st>>)
                    \notin DOMAIN TableOf(program[trace'[i].agent]))
              => trace'[i].action = None
         /\ \A a \in AgentIds :
              ExecutedOnly(trace', a, None)
              => location'[a] = location[a] /\ performance'[a] = performance[a]
         /\ (/\ \E a \in AgentIds : ExecutedOnly(trace', a, None)
             /\ \A a \in AgentIds :
                  InList(agents[last'.env], a) => ExecutedOnly(trace', a, None))
            => (status' = status /\ last'.raised = "")]_vars

\* C14 witness: a step() of the vacuum world returned normally after it
\* executed None, the answer of a program whose table lacks the percept.
C14_Witness ==
  /\ last.op = "step" /\ IsVacuum(last.env) /\ last.raised = ""
  /\ \E i, j \in DOMAIN trace :
       /\ trace[i].ev = "program" /\ trace[i].action = None
       /\ trace[i].loc # loc_A
       /\ trace[j].ev = "execute" /\ trace[j].action = None
       /\ trace[j].agent = trace[i].agent

\* C15: step() called when is_done() holds calls no percept, no program and
\* no execute_action, raises nothing and changes nothing.
C15_StepWhenDoneIsNoOp ==
  [][(last'.op = "step" /\ is_done(last'.env))
      => (trace' = <<>> /\ last'.raised = "" /\ Observable' = Observable)]_vars

\* C15 witness: step() was called on the vacuum world whose agents, at least
\* one, are all marked not alive.
C15_Witness ==
  /\ last.op = "step" /\ IsVacuum(last.env)
  /\ agents[last.env] # <<>> /\ AllMarkedNotAlive(last.env)
  /\ trace = <<>>

\* C13: with status {A: Dirty, B: Clean, C: Dirty, D: Clean} and one
\* table-driven agent added at A, four step() calls give: Suck (at A, A
\* Clean, performance 10), Right (at B, 9), Up (at C, 8), Suck (at C, C
\* Clean, 18), and no other status changes.
ScenarioStatus(cleaned) ==
  [l \in Locs |-> IF l \in ({loc_A, loc_C} \ cleaned) THEN "Dirty" ELSE "Clean"]

Scenario ==
  <<[cleaned |-> {}, loc |-> loc_A, performance |-> 0, action |-> ""],
    [cleaned |-> {loc_A}, loc |-> loc_A, performance |-> 10, action |-> "Suck"],
    [cleaned |-> {loc_A}, loc |-> loc_B, performance |-> 9, action |-> "Right"],
    [cleaned |-> {loc_A}, loc |-> loc_C, performance |-> 8, action |-> "Up"],
    [cleaned |-> {loc_A, loc_C}, loc |-> loc_C, performance |-> 18, action |-> "Suck"]>>

\* the state the scenario has after k steps
AtScenario(k) ==
  /\ agents["vacuum"] = <<1>> /\ alive[1]
  /\ status = ScenarioStatus(Scenario[k + 1].cleaned)
  /\ location[1] = Scenario[k + 1].loc
  /\ performance[1] = Scenario[k + 1].performance

C13_VacuumScenario ==
  [][\A k \in 1..4 :
       (AtScenario(k - 1) /\ last'.op = "step" /\ last'.env = "vacuum")
       => /\ AtScenario(k)'
          /\ last'.raised = ""
          /\ EventsOf(trace', "execute")
               = <<Event("execute", 1, NoPercept, Scenario[k + 1].action)>>]_vars

\* C13 witness: add_thing and four steps were made, the agent perceived
\* (A, Dirty), (A, Clean), (B, Clean), (C, Dirty), and the scenario's final
\* state holds.
C13_Witness ==
  /\ ncalls = 5 /\ AtScenario(4)
  /\ percepts[1] = << <<loc_A, "Dirty">>, <<loc_A, "Clean">>,
                      <<loc_B, "Clean">>, <<loc_C, "Dirty">> >>

\* C16: in a step() of an environment that has a live agent, an agent of
\* agents that is not alive gets no percept and no program call, and its
\* program's history does not grow (unless a live agent holds the same
\* program); in the vacuum world execute_action is
\* called for it once, with the inert action "", and changes neither its
\* location nor its performance nor any status (a status changes only where
\* a live agent stands).
DeadAgents(env) ==
  {agents[env][i] : i \in {j \in DOMAIN agents[env] : ~alive[agents[env][j]]}}

Sucks(a, l) ==
  /\ alive[a] /\ location[a] = l
  /\ TupleOfPercept(<<l, "Dirty">>) \in DOMAIN TableOf(program[a])

C17_OnlyFirstSuckScores ==
  [][(last'.op = "step" /\ IsVacuum(last'.env) /\ last'.raised = "")
      => LET ags == agents[last'.env] IN
         \A i \in DOMAIN ags : \A l \in Locs :
           (status[l] = "Dirty" /\ Sucks(ags[i], l))
           => /\ \E j \in DOMAIN trace' :
                   /\ trace'[j].ev = "program" /\ trace'[j].agent = ags[i]
                   /\ trace'[j].st = "Dirty" /\ trace'[j].action = "Suck"
              /\ status'[l] = "Clean"
              /\ location'[ags[i]] = l
              /\ performance'[ags[i]] = performance[ags[i]]
                   + (IF \E h \in 1..(i - 1) : Sucks(ags[h], l) THEN 0 ELSE 10)]_vars

\* C17 witness: after a step() both table-driven agents were given Suck on
\* one location, now Clean; the first has performance 10, the second 0.
C17_Witness ==
  /\ last.op = "step" /\ last.raised = "" /\ agents["vacuum"] = <<1, 2>>
  /\ location[1] = location[2] /\ status[location[1]] = "Clean"
  /\ performance[1] = 10 /\ performance[2] = 0
  /\ \E i, j \in DOMAIN trace :
       /\ trace[i].ev = "program" /\ trace[i].agent = 1 /\ trace[i].action = "Suck"
       /\ trace[j].ev = "program" /\ trace[j].agent = 2 /\ trace[j].action = "Suck"

\* C18: with one live table-driven agent on a grid location, for every
\* initial status and start location, all four locations are Clean once 7
\* step() calls were made and in every later state, and no location ever
\* goes from Clean to Dirty.
AllClean == \A l \in Locs : status[l] = "Clean"

\* step() calls made in a behaviour of SpecOneAgent, whose first call is the
\* add_thing
StepsMade == IF ncalls = 0 THEN 0 ELSE ncalls - 1

C18_CleanWithinSevenSteps ==
  /\ [](StepsMade >= 7 => AllClean)
  /\ [][\A l \in Locs : status[l] = "Clean" => status'[l] = "Clean"]_vars

\* C18 witness: the seventh step() cleaned the last Dirty location.
C18_Witness ==
  /\ StepsMade = 7 /\ AllClean /\ last.op = "step"
  /\ \E i \in DOMAIN trace : trace[i].ev = "percept" /\ trace[i].st = "Dirty"

\* C19: with one live table-driven agent on a grid location, a step() on a
\* Dirty location adds 10 to the performance, keeps the agent in place and
\* makes that location Clean; a step() on a Clean location takes 1 from the
\* performance, changes no status and moves the agent to the next location
\* of the cycle A, B, C, D, A.
NextInCycle == [loc_A |-> loc_B, loc_B |-> loc_C, loc_C |-> loc_D, loc_D |-> loc_A]

C19_ScorePerStep ==
  [][(last'.op = "step")
      => LET l == location[1] IN
         /\ last'.raised = ""
         /\ IF status[l] = "Dirty"
            THEN /\ performance'[1] = performance[1] + 10
                 /\ location'[1] = l
                 /\ status' = [status EXCEPT ![l] = "Clean"]
            ELSE /\ performance'[1] = performance[1] - 1
                 /\ location'[1] = NextInCycle[l]
                 /\ status' = status]_vars

\* C19 witness: a step() from Clean loc_D brought the agent back to loc_A
\* at the cost of 1.
C19_Witness ==
  /\ last.op = "step" /\ location[1] = loc_A
  /\ \E i \in DOMAIN trace :
       /\ trace[i].ev = "percept" /\ trace[i].loc = loc_D /\ trace[i].st = "Clean"
  /\ \E i \in DOMAIN trace : trace[i].ev = "execute" /\ trace[i].action = "Down"

\* C20: add_thing given a bare program always registers a new Agent: the
\* agent was not known before, the call is never rejected, and the agent is
\* appended to things and to agents; agents wrapped around one program are
\* distinct and share the program's percept history, which grows by one
\* percept for each of them in a step().
LiveUsers(env, p) ==
  {i \in DOMAIN agents[env] : alive[agents[env][i]] /\ program[agents[env][i]] = p}

C20_BareProgramWrapped ==
  /\ [](\A j, k \in 1..nwrapped : WrapName(j) = WrapName(k) => j = k)
  /\ [][(last'.op = "add_program")
          => LET x == last'.arg
                 env == last'.env
             IN /\ last'.result /\ last'.diag = "" /\ last'.raised = ""
                /\ x \notin Created
                /\ \A e \in Envs : ~InList(things[e], x)
                /\ things'[env] = Append(things[env], x)
                /\ agents'[env] = Append(agents[env], x)
                /\ program'[x] \in BarePrograms
                /\ alive'[x] /\ performance'[x] = 0]_vars
  /\ [][(last'.op = "step" /\ ~is_done(last'.env) /\ last'.raised = "")
          => \A p \in Programs :
               Len(percepts'[p])
                 = Len(percepts[p]) + Cardinality(LiveUsers(last'.env, p))]_vars

\* C20 witness: one program was added twice to the vacuum world; the two
\* agents are distinct, hold the same program, and one step() put two
\* percepts in its history.
C20_Witness ==
  /\ last.op = "step" /\ last.raised = "" /\ nwrapped = 2
  /\ agents["vacuum"] = <<WrapName(1), WrapName(2)>>
  /\ WrapName(1) # WrapName(2)
  /\ program[WrapName(1)] = program[WrapName(2)]
  /\ Len(percepts[program[WrapName(1)]]) = 2

====
